---- MODULE Spec2Model ----
(***************************************************************************)
(* Model of app/src/util/http-utils.js: the verb wrappers get, post, put   *)
(* and del over httpRequest, and the error reporter handleError.           *)
(*                                                                         *)
(* JavaScript values are atoms (strings); objects are atoms whose          *)
(* properties are read with Field.  The number 0 is the atom "0", the      *)
(* empty string is "", undefined and null are "undefined" and "null".      *)
(* Events handed to dispatch and the config argument of the transport are  *)
(* records, so that the presence of a key is DOMAIN membership.            *)
(*                                                                         *)
(* An async function runs synchronously up to its first await; each        *)
(* action below is one such synchronous run.                               *)
(***************************************************************************)
EXTENDS Naturals, Sequences, FiniteSets

VARIABLES
    pc,          \* per invocation: where the wrapper / httpRequest is suspended
    frame,       \* per invocation: the wrapper's arguments
    transport,   \* per invocation: what the HTTP transport did with the call
    inner,       \* per invocation: the promise returned by httpRequest
    result,      \* per invocation: the promise returned by the wrapper
    sent,        \* per invocation: the calls made on the transport, in order
    dispatched,  \* every event passed to dispatch, in order
    console,     \* what console.error has printed
    token,       \* the cookie store's 'token' cookie
    cookieSets,  \* how often the cookie store has been changed
    environment, \* getEnvironment()
    sinkMayRaise \* whether the caller's dispatch function can raise

vars == <<pc, frame, transport, inner, result, sent, dispatched, console,
          token, cookieSets, environment, sinkMayRaise>>

----------------------------------------------------------------------------
\* Bounds of the model

MaxInv == 2
MaxCookieChanges == 1

Invocations == 1..MaxInv

----------------------------------------------------------------------------
\* redux-constants, environment-utils

PENDING == "PENDING"
SUCCESS == "SUCCESS"
ERROR == "ERROR"
GET == "get"
POST == "post"
PUT == "put"
DELETE == "delete"

API_URL == "http://api"

----------------------------------------------------------------------------
\* JavaScript values

Undefined == "undefined"
Null == "null"
EmptyObject == "{}"
NoConfig == [k \in {} |-> Undefined]

Falsy == {Undefined, Null, "0", "", "false"}

Truthy(v) == v \notin Falsy

\* a || b
Or(a, b) == IF Truthy(a) THEN a ELSE b

\* a parameter's default value applies when the argument is undefined
Default(arg, dflt) == IF arg = Undefined THEN dflt ELSE arg

\* obj.name for the objects the transport produces
Field(obj, name) ==
    CASE obj = "HttpError" /\ name = "response" -> "res404"
      [] obj = "HttpErrorNoBody" /\ name = "response" -> "res502"
      [] obj = "res404" /\ name = "data" -> "Not found"
      [] obj = "res200" /\ name = "data" -> "{id:1}"
      [] obj = "res201" /\ name = "data" -> "created"
      [] OTHER -> Undefined

\* what the model draws its inputs from
Types == {"FETCH_USER", "SAVE_USER", Undefined}
Endpoints == {"user/1", Undefined}
Bodies == {"{name:'A'}", "0", "", "false", Null, Undefined}
AuthFlags == {"true", "false", Undefined}
Tokens == {"jwt1", "jwt2"}
Responses == {"res200", "res201"}
TransportErrors == {"NetworkError", "HttpError", "HttpErrorNoBody", Null, Undefined}

Pending == [state |-> "pending", value |-> Undefined]
Fulfilled(v) == [state |-> "fulfilled", value |-> v]
Rejected(v) == [state |-> "rejected", value |-> v]

NoFrame == [wrapper |-> "none", type |-> Undefined, endpoint |-> Undefined,
            data |-> Undefined, requiresAuth |-> Undefined]

----------------------------------------------------------------------------

Init ==
    /\ pc = [i \in Invocations |-> "idle"]
    /\ frame = [i \in Invocations |-> NoFrame]
    /\ transport = [i \in Invocations |-> [state |-> "none", value |-> Undefined]]
    /\ inner = [i \in Invocations |-> Pending]
    /\ result = [i \in Invocations |-> Pending]
    /\ sent = [i \in Invocations |-> <<>>]
    /\ dispatched = <<>>
    /\ console = <<>>
    /\ token = "jwt1"
    /\ cookieSets = 0
    /\ environment \in {"development", "production"}
    /\ sinkMayRaise \in BOOLEAN

\* dispatch(action): the sink receives the event and returns or raises
dispatch(i, action, raised) ==
    dispatched' = Append(dispatched, [inv |-> i, action |-> action, raised |-> raised])

SinkOutcomes == IF sinkMayRaise THEN BOOLEAN ELSE {FALSE}

----------------------------------------------------------------------------
\* handleError

\* const errorMessage = error && error.response ? error.response.data : error
errorMessage(error) ==
    IF Truthy(error) /\ Truthy(Field(error, "response"))
    THEN Field(Field(error, "response"), "data")
    ELSE error

\* faulty variant of errorAction: the status placed under meta, as httpRequest does
errorActionUnderMeta(type, message) ==
    [type |-> type, payload |-> message, meta |-> [status |-> ERROR]]

\* the event handleError dispatches
errorAction(type, message) == [type |-> type, payload |-> message, status |-> ERROR]

\* faulty variant of handleErrorReturn: the payload returned in a fulfilled promise
handleErrorResolves(message) == Fulfilled(message)

\* return Promise.reject(errorMessage)
handleErrorReturn(message) == Rejected(message)

\* console.error twice, in a development environment only
consoleError(type, error) ==
    IF environment = "development"
    THEN console \o <<"Error type: " \o type \o ".", error>>
    ELSE console

\* handleError(dispatch, error, type), called from the catch block of wrapper i
handleError(i, error, type) ==
    \E raised \in SinkOutcomes :
        /\ console' = consoleError(type, error)
        /\ dispatch(i, errorAction(type, errorMessage(error)), raised)
        /\ result' = [result EXCEPT ![i] =
                        IF raised THEN Rejected("SinkError")
                        ELSE handleErrorReturn(errorMessage(error))]

----------------------------------------------------------------------------
\* httpRequest

\* the events httpRequest dispatches
pendingAction(actionType) == [type |-> actionType, meta |-> [status |-> PENDING]]

\* faulty variant of successAction: the action type kept in one place shared by
\* all invocations, so that it is the type of the latest call
successActionSharedType(actionType, data) ==
    LET pendings == SelectSeq(dispatched, LAMBDA e : "meta" \in DOMAIN e.action
                                                     /\ e.action.meta.status = PENDING)
    IN  [type |-> pendings[Len(pendings)].action.type,
         meta |-> [status |-> SUCCESS], payload |-> data]

successAction(actionType, data) ==
    [type |-> actionType, meta |-> [status |-> SUCCESS], payload |-> data]

\* faulty variant of requestConfig: the token read once, when the module loads
requestConfigCached(requiresAuth, cookie) ==
    IF Truthy(requiresAuth)
    THEN [headers |-> [Authorization |-> "jwt1"]]
    ELSE NoConfig

\* the third (or second) argument of the transport call
requestConfig(requiresAuth, cookie) ==
    IF Truthy(requiresAuth)
    THEN [headers |-> [Authorization |-> cookie]]
    ELSE NoConfig

\* the data argument pushed for a POST or a PUT
requestData(data) == Or(data, EmptyObject)

\* reqArgs as it stands when the transport is called
reqArgs(requestType, opts, cookie) ==
    <<API_URL \o "/" \o Or(opts.endpoint, "")>>
    \o (IF requestType = POST \/ requestType = PUT
        THEN <<requestData(opts.data)>> ELSE <<>>)
    \o <<requestConfig(opts.requiresAuth, cookie)>>

\* httpRequest up to its await: the PENDING event, then the transport call.
\* An exception (the sink raising, getCookie raising) rejects the promise.
httpRequest(i, requestType, actionType, opts) ==
    \E raised \in SinkOutcomes, cookieRaises \in BOOLEAN :
        /\ cookieRaises => (~raised /\ Truthy(opts.requiresAuth))
        /\ dispatch(i, pendingAction(Default(actionType, "")), raised)
        /\ IF raised \/ cookieRaises
           THEN /\ inner' = [inner EXCEPT ![i] =
                               Rejected(IF raised THEN "SinkError" ELSE "CookieError")]
                /\ pc' = [pc EXCEPT ![i] = "awaitRequest"]
                /\ UNCHANGED <<sent, transport>>
           ELSE /\ sent' = [sent EXCEPT ![i] =
                               Append(@, [method |-> Default(requestType, GET),
                                          args |-> reqArgs(Default(requestType, GET),
                                                           opts, token)])]
                /\ transport' = [transport EXCEPT ![i] =
                                   [state |-> "pending", value |-> Undefined]]
                /\ pc' = [pc EXCEPT ![i] = "awaitTransport"]
                /\ UNCHANGED inner

\* the transport's promise is fulfilled: the SUCCESS event, then the result
TransportResolves(i, response) ==
    /\ pc[i] = "awaitTransport"
    /\ transport' = [transport EXCEPT ![i] = [state |-> "resolved", value |-> response]]
    /\ \E raised \in SinkOutcomes :
        /\ dispatch(i, successAction(Default(frame[i].type, ""),
                                      Field(response, "data")), raised)
        /\ inner' = [inner EXCEPT ![i] =
                       IF raised THEN Rejected("SinkError")
                       ELSE Fulfilled(Field(response, "data"))]
    /\ pc' = [pc EXCEPT ![i] = "awaitRequest"]
    /\ UNCHANGED <<frame, result, sent, console, token, cookieSets,
                   environment, sinkMayRaise>>

\* the transport's promise is rejected: catch (err) { return Promise.reject(err) }
TransportRejects(i, error) ==
    /\ pc[i] = "awaitTransport"
    /\ transport' = [transport EXCEPT ![i] = [state |-> "rejected", value |-> error]]
    /\ inner' = [inner EXCEPT ![i] = Rejected(error)]
    /\ pc' = [pc EXCEPT ![i] = "awaitRequest"]
    /\ UNCHANGED <<frame, result, sent, dispatched, console, token, cookieSets,
                   environment, sinkMayRaise>>

----------------------------------------------------------------------------
\* The verb wrappers

\* faulty variant of wrapperReturn: every wrapper returns the results, as post does
wrapperReturnsResults(wrapper, results) == results

\* what the wrapper's try block returns once httpRequest has resolved
wrapperReturn(wrapper, results) ==
    IF wrapper = "post" THEN results ELSE Undefined

\* the arguments a wrapper was called with
Arguments(wrapper, type, endpoint, data, requiresAuth) ==
    [wrapper |-> wrapper, type |-> type, endpoint |-> endpoint,
     data |-> data, requiresAuth |-> requiresAuth]

post(i, type, endpoint, data, requiresAuth) ==
    /\ pc[i] = "idle"
    /\ frame' = [frame EXCEPT ![i] = Arguments("post", type, endpoint, data, requiresAuth)]
    /\ httpRequest(i, POST, type,
                   [endpoint |-> endpoint, data |-> data, requiresAuth |-> requiresAuth])
    /\ UNCHANGED <<result, console, token, cookieSets, environment, sinkMayRaise>>

put(i, type, endpoint, data, requiresAuth) ==
    /\ pc[i] = "idle"
    /\ frame' = [frame EXCEPT ![i] = Arguments("put", type, endpoint, data, requiresAuth)]
    /\ httpRequest(i, PUT, type,
                   [endpoint |-> endpoint, data |-> data, requiresAuth |-> requiresAuth])
    /\ UNCHANGED <<result, console, token, cookieSets, environment, sinkMayRaise>>

\* get and del build opts without a data key: opts.data is undefined
get(i, type, endpoint, requiresAuth) ==
    /\ pc[i] = "idle"
    /\ frame' = [frame EXCEPT ![i] = Arguments("get", type, endpoint, Undefined, requiresAuth)]
    /\ httpRequest(i, GET, type,
                   [endpoint |-> endpoint, data |-> Undefined, requiresAuth |-> requiresAuth])
    /\ UNCHANGED <<result, console, token, cookieSets, environment, sinkMayRaise>>

del(i, type, endpoint, requiresAuth) ==
    /\ pc[i] = "idle"
    /\ frame' = [frame EXCEPT ![i] = Arguments("del", type, endpoint, Undefined, requiresAuth)]
    /\ httpRequest(i, DELETE, type,
                   [endpoint |-> endpoint, data |-> Undefined, requiresAuth |-> requiresAuth])
    /\ UNCHANGED <<result, console, token, cookieSets, environment, sinkMayRaise>>

\* the wrapper resumes after `await httpRequest(...)`
WrapperResumes(i) ==
    /\ pc[i] = "awaitRequest"
    /\ IF inner[i].state = "fulfilled"
       THEN /\ result' = [result EXCEPT ![i] =
                            Fulfilled(wrapperReturn(frame[i].wrapper, inner[i].value))]
            /\ UNCHANGED <<dispatched, console>>
       ELSE handleError(i, inner[i].value, frame[i].type)
    /\ pc' = [pc EXCEPT ![i] = "done"]
    /\ UNCHANGED <<frame, transport, inner, sent, token, cookieSets,
                   environment, sinkMayRaise>>

----------------------------------------------------------------------------
\* The cookie store, which this module only reads

SetCookie(t) ==
    /\ cookieSets < MaxCookieChanges
    /\ t # token
    /\ token' = t
    /\ cookieSets' = cookieSets + 1
    /\ UNCHANGED <<pc, frame, transport, inner, result, sent, dispatched,
                   console, environment, sinkMayRaise>>

----------------------------------------------------------------------------
\* One invocation, every input and every outcome

Next ==
    \/ \E type \in Types, endpoint \in Endpoints, requiresAuth \in AuthFlags :
         get(1, type, endpoint, requiresAuth)
    \/ \E type \in Types, endpoint \in Endpoints, data \in Bodies,
          requiresAuth \in AuthFlags :
         post(1, type, endpoint, data, requiresAuth)
    \/ \E type \in Types, endpoint \in Endpoints, data \in Bodies,
          requiresAuth \in AuthFlags :
         put(1, type, endpoint, data, requiresAuth)
    \/ \E type \in Types, endpoint \in Endpoints, requiresAuth \in AuthFlags :
         del(1, type, endpoint, requiresAuth)
    \/ \E response \in Responses : TransportResolves(1, response)
    \/ \E error \in TransportErrors : TransportRejects(1, error)
    \/ WrapperResumes(1)
    \/ \E t \in Tokens : SetCookie(t)

Spec == Init /\ [][Next]_vars

----------------------------------------------------------------------------
\* Several invocations in flight at once, told apart by type and outcome

ConcTypes == {"FETCH_USER", Undefined}
ConcErrors == {"HttpError"}

InitConc ==
    /\ Init
    /\ environment = "production"
    /\ ~sinkMayRaise

NextConc ==
    \/ \E i \in Invocations, type \in ConcTypes : get(i, type, "user/1", Undefined)
    \/ \E i \in Invocations, type \in ConcTypes : post(i, type, "user", "{name:'A'}", Undefined)
    \/ \E i \in Invocations, response \in Responses : TransportResolves(i, response)
    \/ \E i \in Invocations, error \in ConcErrors : TransportRejects(i, error)
    \/ \E i \in Invocations : WrapperResumes(i)

SpecConc == InitConc /\ [][NextConc]_vars

----------------------------------------------------------------------------
\* Several calls while the cookie store changes

NextAuth ==
    \/ \E i \in Invocations, requiresAuth \in AuthFlags :
         get(i, "FETCH_USER", "user/1", requiresAuth)
    \/ \E i \in Invocations, requiresAuth \in AuthFlags :
         post(i, "SAVE_USER", "user", "{name:'A'}", requiresAuth)
    \/ \E i \in Invocations : TransportResolves(i, "res200")
    \/ \E i \in Invocations : WrapperResumes(i)
    \/ \E t \in Tokens : SetCookie(t)

SpecAuth == InitConc /\ [][NextAuth]_vars

----------------------------------------------------------------------------
\* Reading the record of a run

\* the events invocation i passed to dispatch, in order
Events(i) ==
    LET own == SelectSeq(dispatched, LAMBDA e : e.inv = i)
    IN  [k \in 1..Len(own) |-> own[k].action]

\* whether the sink raised on the k-th event of invocation i
Raised(i, k) == SelectSeq(dispatched, LAMBDA e : e.inv = i)[k].raised

\* the status an event carries, wherever it carries it
StatusOf(action) ==
    IF "meta" \in DOMAIN action THEN action.meta.status
    ELSE IF "status" \in DOMAIN action THEN action.status
    ELSE "none"

Statuses(i) == [k \in 1..Len(Events(i)) |-> StatusOf(Events(i)[k])]

Count(seq, x) == Cardinality({k \in 1..Len(seq) : seq[k] = x})

EventsWith(i, status) == SelectSeq(Events(i), LAMBDA a : StatusOf(a) = status)

Done(i) == pc[i] = "done"

\* the config argument of the transport call invocation i made
ConfigOf(call) == call.args[Len(call.args)]

----------------------------------------------------------------------------
\* C1: for any single invocation, whatever the transport and the sink do,
\* the events passed to dispatch are one PENDING event followed by exactly
\* one terminal event, SUCCESS or ERROR and never both.
C1_OnePendingThenOneTerminal ==
    \A i \in Invocations :
        /\ Statuses(i) \in {<<>>, <<PENDING>>, <<PENDING, SUCCESS>>, <<PENDING, ERROR>>}
        /\ Done(i) => Len(Statuses(i)) = 2

\* C2: when the transport call succeeds, dispatch receives one PENDING event
\* and then one SUCCESS event, both tagged with the caller's action type, the
\* SUCCESS payload being response.data, and no ERROR event.
C2_SuccessEmitsPendingThenSuccess ==
    \A i \in Invocations :
        (Done(i) /\ transport[i].state = "resolved") =>
            Events(i) = << [type |-> frame[i].type, meta |-> [status |-> PENDING]],
                           [type |-> frame[i].type, meta |-> [status |-> SUCCESS],
                            payload |-> Field(transport[i].value, "data")] >>

\* the payload the claim C3 expects for an error: response.data when the
\* error carries a response with a body, the raw error otherwise
C3_Payload(error) ==
    IF error \notin {Null, Undefined}
       /\ Field(error, "response") # Undefined
       /\ Field(Field(error, "response"), "data") # Undefined
    THEN Field(Field(error, "response"), "data")
    ELSE error

\* C3: for a failed call handleError emits exactly one ERROR event tagged
\* with the action type, whose payload is the error's response.data when
\* present and otherwise the raw error (so also for a response without a body
\* and for a null or undefined error), and the promise it returns is rejected
\* with that payload.
C3_ErrorPayloadIsBodyOrRawError ==
    \A i \in Invocations :
        (Done(i) /\ inner[i].state = "rejected") =>
            LET errors == EventsWith(i, ERROR)
            IN  /\ Len(errors) = 1
                /\ errors[1].type = frame[i].type
                /\ errors[1].payload = C3_Payload(inner[i].value)
                /\ result[i].state = "rejected"
                /\ ~Raised(i, Len(Events(i))) =>
                       result[i].value = C3_Payload(inner[i].value)

\* C4: the transport call carries a body argument iff the verb is POST or
\* PUT; post and put pass the supplied body for every supplied value, falsy
\* ones included, and an empty object only when none is supplied.
C4_BodyIffPostOrPut ==
    \A i \in Invocations :
        \A k \in 1..Len(sent[i]) :
            LET call == sent[i][k]
            IN  /\ Len(call.args) = 3 <=> frame[i].wrapper \in {"post", "put"}
                /\ Len(call.args) = 2 <=> frame[i].wrapper \in {"get", "del"}
                /\ Len(call.args) = 3 =>
                       call.args[2] = IF frame[i].data = Undefined
                                      THEN EmptyObject ELSE frame[i].data

\* a request failed: the transport rejected it, or building it raised
Failed(i) ==
    \/ transport[i].state = "rejected"
    \/ inner[i] = Rejected("CookieError")

\* C6: every failure (no response, an error response, an exception while the
\* request is built) is surfaced as one ERROR event and a rejected promise;
\* the wrapper's promise is never fulfilled for a failed request.
C6_FailureIsErrorEventAndRejection ==
    \A i \in Invocations :
        Failed(i) =>
            /\ result[i].state # "fulfilled"
            /\ Done(i) => /\ Len(EventsWith(i, ERROR)) = 1
                          /\ Len(EventsWith(i, SUCCESS)) = 0
                          /\ result[i].state = "rejected"

\* C6 happens: the cookie read raised, and the call ended in a rejection
C6_CookieFailureRejected ==
    \E i \in Invocations :
        /\ Done(i)
        /\ inner[i] = Rejected("CookieError")
        /\ sent[i] = <<>>
        /\ result[i] = Rejected("CookieError")

\* a request succeeded: the transport responded and the sink took both events
Succeeded(i) ==
    /\ Done(i)
    /\ transport[i].state = "resolved"
    /\ \A k \in 1..Len(Events(i)) : ~Raised(i, k)

\* C7: on a successful request post resolves with the response body, the
\* value the SUCCESS event carries, while get, put and del resolve with
\* undefined although their SUCCESS event carries the body.
C7_OnlyPostResolvesWithBody ==
    \A i \in Invocations :
        /\ Succeeded(i) <=> (Done(i) /\ result[i].state = "fulfilled")
        /\ Succeeded(i) =>
               LET body == Field(transport[i].value, "data")
               IN  /\ Len(EventsWith(i, SUCCESS)) = 1
                   /\ EventsWith(i, SUCCESS)[1].payload = body
                   /\ result[i].value = IF frame[i].wrapper = "post"
                                        THEN body ELSE Undefined

\* C7 happens: a put resolved with undefined after a SUCCESS event with a body
C7_PutResolvedUndefined ==
    \E i \in Invocations :
        /\ Succeeded(i)
        /\ frame[i].wrapper = "put"
        /\ EventsWith(i, SUCCESS)[1].payload = "created"
        /\ result[i] = Fulfilled(Undefined)

\* C8: no retries: an invocation makes at most one transport call, emits at
\* most one PENDING event, and emits nothing after its terminal event.
C8_NothingAfterTerminalEvent ==
    \A i \in Invocations :
        /\ Len(sent[i]) <= 1
        /\ Count(Statuses(i), PENDING) <= 1
        /\ \A k \in 1..Len(Statuses(i)) :
               Statuses(i)[k] \in {SUCCESS, ERROR} => k = Len(Statuses(i))

\* where an event carries its status: PENDING and SUCCESS under meta only,
\* ERROR in the top-level status field only
StatusPlacedByKind(action) ==
    \/ /\ "meta" \in DOMAIN action
       /\ "status" \notin DOMAIN action
       /\ action.meta.status \in {PENDING, SUCCESS}
    \/ /\ "status" \in DOMAIN action
       /\ "meta" \notin DOMAIN action
       /\ action.status = ERROR

\* C10 as claimed: every event of an invocation has the caller's action type,
\* and carries its status under meta (PENDING, SUCCESS) or at the top level
\* (ERROR), never both and never neither.
C10_CallersTypeAndStatusPlacement ==
    \A i \in Invocations :
        \A k \in 1..Len(Events(i)) :
            /\ Events(i)[k].type = frame[i].type
            /\ StatusPlacedByKind(Events(i)[k])

\* C10 as amended: the status is placed by kind as claimed; an ERROR event
\* has the caller's action type, a PENDING or SUCCESS event has it too unless
\* the caller passed undefined, and then its type is the empty string.
C10_DefaultedTypeAndStatusPlacement ==
    \A i \in Invocations :
        \A k \in 1..Len(Events(i)) :
            LET action == Events(i)[k]
            IN  /\ StatusPlacedByKind(action)
                /\ action.type = IF StatusOf(action) # ERROR /\ frame[i].type = Undefined
                                 THEN "" ELSE frame[i].type

\* C10 happens: a call without a type failed, its PENDING event typed '' and
\* its ERROR event typed undefined
C10_UntypedCallFailed ==
    \E i \in Invocations :
        /\ Done(i)
        /\ frame[i].type = Undefined
        /\ Len(Events(i)) = 2
        /\ Events(i)[1] = [type |-> "", meta |-> [status |-> PENDING]]
        /\ Events(i)[2] = [type |-> Undefined, payload |-> "Not found", status |-> ERROR]

\* C5: a call with requiresAuth true sends an Authorization header whose
\* value is the token the cookie store holds as the call is made, read anew
\* on every call, and nothing else in the config; a call with requiresAuth
\* false or absent sends an empty config.
C5_AuthorizationIsCurrentToken ==
    [][\A i \in Invocations :
          Len(sent'[i]) > Len(sent[i]) =>
              LET config == ConfigOf(sent'[i][Len(sent'[i])])
              IN  /\ frame'[i].requiresAuth = "true" =>
                         config = [headers |-> [Authorization |-> token]]
                  /\ frame'[i].requiresAuth \in {"false", Undefined} =>
                         DOMAIN config = {}]_vars

\* C5 happens: two calls separated by a change of the token sent two
\* different Authorization values
C5_TwoCallsTwoTokens ==
    \E i, j \in Invocations :
        /\ i # j
        /\ Len(sent[i]) = 1 /\ Len(sent[j]) = 1
        /\ frame[i].requiresAuth = "true" /\ frame[j].requiresAuth = "true"
        /\ ConfigOf(sent[i][1]).headers.Authorization = "jwt1"
        /\ ConfigOf(sent[j][1]).headers.Authorization = "jwt2"

\* the error handed to handleError in invocation i, and what it reports
OwnError(i) == inner[i].value

\* what invocation i emits and returns when it runs alone, given its own
\* arguments and its own transport outcome; typeOf gives an event's type
RunAlone(i, typeOf(_, _)) ==
    LET pending == [type |-> typeOf(i, PENDING), meta |-> [status |-> PENDING]]
        success == [type |-> typeOf(i, SUCCESS), meta |-> [status |-> SUCCESS],
                    payload |-> Field(transport[i].value, "data")]
        error   == [type |-> typeOf(i, ERROR), payload |-> errorMessage(OwnError(i)),
                    status |-> ERROR]
        responded == transport[i].state = "resolved"
    IN  CASE pc[i] = "idle" ->
               [events |-> <<>>, result |-> Pending]
          [] pc[i] = "awaitTransport" ->
               [events |-> <<pending>>, result |-> Pending]
          [] pc[i] = "awaitRequest" ->
               [events |-> IF responded THEN <<pending, success>> ELSE <<pending>>,
                result |-> Pending]
          [] pc[i] = "done" /\ responded ->
               [events |-> <<pending, success>>,
                result |-> Fulfilled(IF frame[i].wrapper = "post"
                                     THEN Field(transport[i].value, "data")
                                     ELSE Undefined)]
          [] pc[i] = "done" /\ ~responded ->
               [events |-> <<pending, error>>,
                result |-> Rejected(errorMessage(OwnError(i)))]

CallersType(i, status) == frame[i].type

DefaultedType(i, status) ==
    IF status # ERROR /\ frame[i].type = Undefined THEN "" ELSE frame[i].type

\* C9 as claimed: with several invocations in flight, under every
\* interleaving, each invocation emits its own PENDING event before its own
\* terminal event, each tagged with that invocation's action type and
\* carrying its own response or error, and its events and result are those
\* of that invocation alone, whatever the others do.
C9_EachInvocationAsIfAlone ==
    \A i \in Invocations :
        /\ Events(i) = RunAlone(i, CallersType).events
        /\ result[i] = RunAlone(i, CallersType).result

\* C9 as amended: the same, the tag of a PENDING or SUCCESS event being the
\* empty string when the invocation was called with an undefined type.
C9_EachInvocationAsIfAloneDefaulted ==
    \A i \in Invocations :
        /\ Events(i) = RunAlone(i, DefaultedType).events
        /\ result[i] = RunAlone(i, DefaultedType).result

\* C9 happens: two invocations were in flight at once and their events
\* interleaved, one failing and one succeeding, each with its own type and
\* payload
C9_InterleavedOppositeOutcomes ==
    /\ Len(dispatched) = 4
    /\ [k \in 1..4 |-> dispatched[k].inv] = <<1, 2, 2, 1>>
    /\ Events(1) = << [type |-> "", meta |-> [status |-> PENDING]],
                      [type |-> Undefined, payload |-> "Not found", status |-> ERROR] >>
    /\ Events(2) = << [type |-> "FETCH_USER", meta |-> [status |-> PENDING]],
                      [type |-> "FETCH_USER", meta |-> [status |-> SUCCESS],
                       payload |-> "created"] >>
    /\ result[1] = Rejected("Not found")
    /\ result[2] = Fulfilled("created")

====
